---- MODULE Spec2Model ----
(***************************************************************************)
(* Game Store API (src/main.py): registration, login, bearer-token         *)
(* sessions, the admin gate, the game catalog and the order workflow, over *)
(* a shared document store.                                                *)
(*                                                                         *)
(* Strings are modelled by what the code reads of them:                    *)
(*   - an email or an authorization scheme is a sequence of character      *)
(*     codes, so that str.lower() is computed and not assumed;             *)
(*   - an id string is [len, hex, n]: its length, whether all its          *)
(*     characters are hex digits, and the object id it spells;             *)
(*   - a session token is a natural number: token n is the n-th value      *)
(*     drawn from secrets.token_hex, 0 is a value that is never drawn.     *)
(* A handler whose store operations no other request can separate          *)
(* observably is one action; register and create_order, whose existence    *)
(* check and insert are separate store operations, are one action per      *)
(* store operation, and a request in flight lives in a slot of req.        *)
(***************************************************************************)
EXTENDS Integers, Sequences, FiniteSets

VARIABLES
    users,      \* db["user"]: sequence of documents, in insertion order
    sessions,   \* db["session"]
    games,      \* db["game"]
    gameIds,    \* number of object ids db["game"] has handed out
    orders,     \* db["order"]
    now,        \* int(time.time())
    left,       \* inserts and clock advances the run may still make
    req,        \* the requests in flight: slot -> position and locals
    resp        \* the response the last step sent, NoResp if it sent none

vars == <<users, sessions, games, gameIds, orders, now, left, req, resp>>
store == <<users, sessions, games, orders>>

---------------------------------------------------------------------------
(* Bounds of the model *)

\* documents inserted and clock advances of a run, all collections together:
\* under Spec, and under SpecAuth (the auth handlers alone)
MaxOps == 3
MaxAuthOps == 4

\* Request slots: two requests may be in flight at once.
Reqs == {1, 2}

---------------------------------------------------------------------------
(* Program constants *)

SECRET_KEY == "dev-secret-key"
SESSION_TTL_SECONDS == 7 * 24 * 3600

---------------------------------------------------------------------------
(* Strings *)

\* "a", "A", "b"
Emails == {<<97>>, <<65>>, <<98>>}
Passwords == {"pw1", "pw2"}

\* "Bearer", "BEARER", "Basic"
Bearer == <<66, 101, 97, 114, 101, 114>>
BEARER == <<66, 69, 65, 82, 69, 82>>
Basic == <<66, 97, 115, 105, 99>>
\* "bearer"
BearerPrefix == <<98, 101, 97, 114, 101, 114>>

\* str.lower() on ASCII
Lower(s) == [i \in DOMAIN s |-> IF s[i] >= 65 /\ s[i] <= 90 THEN s[i] + 32 ELSE s[i]]

\* tokens a client presents: 0 is never issued
Tokens == {0, 1, 2}

\* Authorization header: absent, or "<scheme> <cred>"
NoHeader == [scheme |-> <<>>, cred |-> 0]
Headers == {NoHeader, [scheme |-> Basic, cred |-> 1], [scheme |-> BEARER, cred |-> 1]}
              \cup [scheme : {Bearer}, cred : Tokens]

\* str(ObjectId n)
MkId(n) == [len |-> 24, hex |-> TRUE, n |-> n]
NoId == [len |-> 0, hex |-> TRUE, n |-> 0]
\* well-formed ids, a 23-character hex string, a 24-character non-hex string
IdStrings == {MkId(n) : n \in {1, 2}}
                \cup {[len |-> 23, hex |-> TRUE, n |-> 1], [len |-> 24, hex |-> FALSE, n |-> 1]}

\* bson.ObjectId.is_valid on a string
ObjectIdIsValid(s) == s.len = 24 /\ s.hex

Min(S) == CHOOSE x \in S : \A y \in S : x <= y

---------------------------------------------------------------------------
(* Utilities *)

\* oid(): the object id, or the 400 it raises
oid(id_str) ==
    IF ObjectIdIsValid(id_str) THEN [ok |-> TRUE, id |-> id_str.n]
    ELSE [ok |-> FALSE, id |-> 0]

hash_password(password) == <<"sha256", SECRET_KEY, password>>

\* database.create_document on a collection kept as a sequence: the new
\* document gets the next object id
create_document(coll, doc) == Append(coll, doc)

\* find_one: the first matching document's position, 0 for None
FindFirst(coll, Match(_)) ==
    LET m == {i \in 1..Len(coll) : Match(coll[i])}
    IN IF m = {} THEN 0 ELSE Min(m)

FindUserByEmail(email) == FindFirst(users, LAMBDA u : u.email = email)
FindUserById(id) == FindFirst(users, LAMBDA u : u.id = id)
FindSessionByToken(token) == FindFirst(sessions, LAMBDA s : s.token = token)

\* create_session: the session collection after the insert
create_session(user_id) ==
    LET token == Len(sessions) + 1
        expires_at == now + SESSION_TTL_SECONDS
    IN create_document(sessions, [user_id |-> user_id, token |-> token, expires_at |-> expires_at])

\* get_current_user with the expiry test written >=: a session dies one second early
get_current_user_ExpiresEarly(authorization) ==
    IF authorization = NoHeader \/ Lower(authorization.scheme) # BearerPrefix THEN 0
    ELSE LET token == authorization.cred
             s == FindSessionByToken(token)
         IN IF s = 0 THEN 0
            ELSE IF now >= sessions[s].expires_at THEN 0
            ELSE IF ObjectIdIsValid(sessions[s].user_id)
                 THEN FindUserById(oid(sessions[s].user_id).id)
                 ELSE 0

\* get_current_user without the scheme test: any "<scheme> <token>" header is read
get_current_user_AnyScheme(authorization) ==
    IF authorization = NoHeader THEN 0
    ELSE LET token == authorization.cred
             s == FindSessionByToken(token)
         IN IF s = 0 THEN 0
            ELSE IF now > sessions[s].expires_at THEN 0
            ELSE IF ObjectIdIsValid(sessions[s].user_id)
                 THEN FindUserById(oid(sessions[s].user_id).id)
                 ELSE 0

\* get_current_user: the user's position in the collection, 0 for None
get_current_user(authorization) ==
    IF authorization = NoHeader \/ Lower(authorization.scheme) # BearerPrefix THEN 0
    ELSE LET token == authorization.cred
             s == FindSessionByToken(token)
         IN IF s = 0 THEN 0
            ELSE IF now > sessions[s].expires_at THEN 0
            ELSE IF ObjectIdIsValid(sessions[s].user_id)
                 THEN FindUserById(oid(sessions[s].user_id).id)
                 ELSE 0

\* require_admin without the role test
require_admin_NoRoleCheck(authorization) ==
    LET user == get_current_user(authorization)
    IN IF user = 0 THEN 401 ELSE 200

\* require_admin: the status it raises, 200 when it returns the user
require_admin(authorization) ==
    LET user == get_current_user(authorization)
    IN IF user = 0 THEN 401
       ELSE IF users[user].role # "admin" THEN 403
       ELSE 200

\* the detail require_admin raises with
AdminDetail(status_code) == IF status_code = 401 THEN "Unauthorized" ELSE "Admin access required"

---------------------------------------------------------------------------
(* Requests and responses *)

NoResp == [op |-> "none", status |-> 0, val |-> 0, docs |-> {}, detail |-> ""]
Resp(op, status, val) == [op |-> op, status |-> status, val |-> val, docs |-> {}, detail |-> ""]
\* raise HTTPException(status_code, detail)
HTTPException(op, status_code, detail) ==
    [op |-> op, status |-> status_code, val |-> 0, docs |-> {}, detail |-> detail]

Idle == [pc |-> "idle", email |-> <<>>, password |-> "", user_id |-> NoId,
         user |-> 0, game_id |-> NoId, transaction_id |-> ""]

\* the last response has been sent: the next store operation may run
Ready == resp = NoResp

InFlight(pcs) == Cardinality({q \in Reqs : req[q].pc \in pcs})

\* a new request takes the first free slot
Free(r) == req[r].pc = "idle" /\ \A q \in Reqs : q < r => req[q].pc # "idle"

---------------------------------------------------------------------------
(* Auth *)

\* register, line 111-113: the existence check
register_find(r, email, password) ==
    /\ Ready
    /\ Free(r)
    /\ LET existing == FindUserByEmail(Lower(email))
       IN IF existing # 0
          THEN /\ resp' = HTTPException("register", 400, "Email already registered")
               /\ UNCHANGED <<req, left>>
          ELSE /\ left >= 2
               /\ left' = left - 2
               /\ req' = [req EXCEPT ![r] = [Idle EXCEPT !.pc = "reg_insert",
                                                        !.email = email,
                                                        !.password = password]]
               /\ resp' = NoResp
    /\ UNCHANGED <<users, sessions, games, gameIds, orders, now>>

\* the user insert where the first user of an empty store is made admin
register_insert_FirstIsAdmin(r) ==
    /\ Ready
    /\ req[r].pc = "reg_insert"
    /\ LET id == Len(users) + 1
           user_doc == [id |-> id, email |-> Lower(req[r].email),
                        password_hash |-> hash_password(req[r].password),
                        role |-> IF users = <<>> THEN "admin" ELSE "user"]
       IN /\ users' = create_document(users, user_doc)
          /\ req' = [req EXCEPT ![r].pc = "reg_session", ![r].user_id = MkId(id)]
    /\ resp' = NoResp
    /\ UNCHANGED <<sessions, games, gameIds, orders, now, left>>

\* register, line 114-121: the user insert
register_insert(r) ==
    /\ Ready
    /\ req[r].pc = "reg_insert"
    /\ LET id == Len(users) + 1
           user_doc == [id |-> id, email |-> Lower(req[r].email),
                        password_hash |-> hash_password(req[r].password),
                        role |-> "user"]
       IN /\ users' = create_document(users, user_doc)
          /\ req' = [req EXCEPT ![r].pc = "reg_session", ![r].user_id = MkId(id)]
    /\ resp' = NoResp
    /\ UNCHANGED <<sessions, games, gameIds, orders, now, left>>

\* register, line 122-123: the session insert and the response
register_session(r) ==
    /\ Ready
    /\ req[r].pc = "reg_session"
    /\ sessions' = create_session(req[r].user_id)
    /\ resp' = Resp("register", 200, Len(sessions'))
    /\ req' = [req EXCEPT ![r] = Idle]
    /\ UNCHANGED <<users, games, gameIds, orders, now, left>>

\* login that opens the session before it checks the password
login_SessionFirst(email, password) ==
    /\ Ready
    /\ LET user == FindUserByEmail(Lower(email))
       IN IF user = 0
          THEN /\ resp' = HTTPException("login", 401, "Invalid email or password")
               /\ UNCHANGED <<sessions, left>>
          ELSE /\ left >= 1
               /\ left' = left - 1
               /\ sessions' = create_session(MkId(users[user].id))
               /\ IF users[user].password_hash # hash_password(password)
                  THEN resp' = HTTPException("login", 401, "Invalid email or password")
                  ELSE resp' = Resp("login", 200, Len(sessions'))
    /\ UNCHANGED <<users, games, gameIds, orders, now, req>>

\* login
login(email, password) ==
    /\ Ready
    /\ LET user == FindUserByEmail(Lower(email))
       IN IF user = 0 \/ users[user].password_hash # hash_password(password)
          THEN /\ resp' = HTTPException("login", 401, "Invalid email or password")
               /\ UNCHANGED <<sessions, left>>
          ELSE /\ left >= 1
               /\ left' = left - 1
               /\ sessions' = create_session(MkId(users[user].id))
               /\ resp' = Resp("login", 200, Len(sessions'))
    /\ UNCHANGED <<users, games, gameIds, orders, now, req>>

\* me
me(authorization) ==
    /\ Ready
    /\ LET user == get_current_user(authorization)
       IN IF user = 0
          THEN resp' = HTTPException("me", 401, "Unauthorized")
          ELSE resp' = Resp("me", 200, users[user].id)
    /\ UNCHANGED <<users, sessions, games, gameIds, orders, now, left, req>>

\* the response goes out to the client
Deliver ==
    /\ resp # NoResp
    /\ resp' = NoResp
    /\ UNCHANGED <<users, sessions, games, gameIds, orders, now, left, req>>

\* time.time() advances
Tick(d) ==
    /\ Ready
    /\ left >= 1
    /\ left' = left - 1
    /\ now' = now + d
    /\ resp' = NoResp
    /\ UNCHANGED <<users, sessions, games, gameIds, orders, req>>

---------------------------------------------------------------------------
(* Games *)

\* titles a new game is created with; an update sets "t2"
Titles == {"t1"}
\* a field the request leaves out
PyNone == "None"

FindGameById(id) == FindFirst(games, LAMBDA g : g.id = id)
FindOrderById(id) == FindFirst(orders, LAMBDA o : o.id = id)
FindOrderByTransaction(transaction_id) ==
    FindFirst(orders, LAMBDA o : o.transaction_id = transaction_id)

\* delete_one: the collection without the first match
DeleteAt(coll, i) == [j \in 1..(Len(coll) - 1) |-> IF j < i THEN coll[j] ELSE coll[j + 1]]

\* get_game
get_game(game_id) ==
    /\ Ready
    /\ LET o == oid(game_id)
           doc == IF o.ok THEN FindGameById(o.id) ELSE 0
       IN IF ~o.ok THEN resp' = HTTPException("get_game", 400, "Invalid id format")
          ELSE IF doc = 0 THEN resp' = HTTPException("get_game", 404, "Game not found")
          ELSE resp' = [Resp("get_game", 200, games[doc].id) EXCEPT !.docs = {games[doc]}]
    /\ UNCHANGED <<users, sessions, games, gameIds, orders, now, left, req>>

\* create_game
create_game(authorization, title) ==
    /\ Ready
    /\ LET auth == require_admin(authorization)
       IN IF auth # 200
          THEN /\ resp' = HTTPException("create_game", auth, AdminDetail(auth))
               /\ UNCHANGED <<games, gameIds, left>>
          ELSE /\ left >= 1
               /\ left' = left - 1
               /\ gameIds' = gameIds + 1
               /\ games' = create_document(games, [id |-> gameIds', title |-> title, updated_at |-> -1])
               /\ resp' = Resp("create_game", 200, gameIds')
    /\ UNCHANGED <<users, sessions, orders, now, req>>

\* update_game; payload.title is PyNone for an empty payload
update_game(authorization, game_id, payload) ==
    /\ Ready
    /\ LET auth == require_admin(authorization)
           updates == {k \in DOMAIN payload : payload[k] # PyNone}
           o == oid(game_id)
           doc == IF o.ok THEN FindGameById(o.id) ELSE 0
       IN IF auth # 200
          THEN /\ resp' = HTTPException("update_game", auth, AdminDetail(auth))
               /\ UNCHANGED games
          ELSE IF updates = {}
          THEN /\ resp' = Resp("update_game", 200, 0)
               /\ UNCHANGED games
          ELSE IF ~o.ok
          THEN /\ resp' = HTTPException("update_game", 400, "Invalid id format")
               /\ UNCHANGED games
          ELSE IF doc = 0
          THEN /\ resp' = HTTPException("update_game", 404, "Game not found")
               /\ UNCHANGED games
          ELSE /\ games' = [games EXCEPT ![doc].title = payload.title, ![doc].updated_at = now]
               /\ resp' = Resp("update_game", 200, 1)
    /\ UNCHANGED <<users, sessions, gameIds, orders, now, left, req>>

\* delete_game that does not read deleted_count
delete_game_NoCountCheck(authorization, game_id) ==
    /\ Ready
    /\ LET auth == require_admin(authorization)
           o == oid(game_id)
           doc == IF o.ok THEN FindGameById(o.id) ELSE 0
       IN IF auth # 200
          THEN /\ resp' = HTTPException("delete_game", auth, AdminDetail(auth))
               /\ UNCHANGED games
          ELSE IF ~o.ok
          THEN /\ resp' = HTTPException("delete_game", 400, "Invalid id format")
               /\ UNCHANGED games
          ELSE /\ games' = IF doc = 0 THEN games ELSE DeleteAt(games, doc)
               /\ resp' = Resp("delete_game", 200, 1)
    /\ UNCHANGED <<users, sessions, gameIds, orders, now, left, req>>

\* delete_game
delete_game(authorization, game_id) ==
    /\ Ready
    /\ LET auth == require_admin(authorization)
           o == oid(game_id)
           doc == IF o.ok THEN FindGameById(o.id) ELSE 0
       IN IF auth # 200
          THEN /\ resp' = HTTPException("delete_game", auth, AdminDetail(auth))
               /\ UNCHANGED games
          ELSE IF ~o.ok
          THEN /\ resp' = HTTPException("delete_game", 400, "Invalid id format")
               /\ UNCHANGED games
          ELSE IF doc = 0
          THEN /\ resp' = HTTPException("delete_game", 404, "Game not found")
               /\ UNCHANGED games
          ELSE /\ games' = DeleteAt(games, doc)
               /\ resp' = Resp("delete_game", 200, 1)
    /\ UNCHANGED <<users, sessions, gameIds, orders, now, left, req>>

---------------------------------------------------------------------------
(* Orders *)

Transactions == {"tx1", "tx2"}
Statuses == {"pending", "verified", "delivered", "cancelled"}

\* create_order, line 251-254: the identity, the id check and the game lookup
create_order_find_game(r, authorization, game_id, transaction_id) ==
    /\ Ready
    /\ Free(r)
    /\ LET user == get_current_user(authorization)
           o == oid(game_id)
           game == IF o.ok THEN FindGameById(o.id) ELSE 0
       IN IF ~o.ok
          THEN /\ resp' = HTTPException("create_order", 400, "Invalid id format")
               /\ UNCHANGED <<req, left>>
          ELSE IF game = 0
          THEN /\ resp' = HTTPException("create_order", 404, "Game not found")
               /\ UNCHANGED <<req, left>>
          ELSE /\ left >= 1
               /\ left' = left - 1
               /\ req' = [req EXCEPT ![r] = [Idle EXCEPT !.pc = "ord_txn",
                                                        !.user = user,
                                                        !.game_id = game_id,
                                                        !.transaction_id = transaction_id]]
               /\ resp' = NoResp
    /\ UNCHANGED <<users, sessions, games, gameIds, orders, now>>

\* create_order, line 256-257: the duplicate transaction check
create_order_check(r) ==
    /\ Ready
    /\ req[r].pc = "ord_txn"
    /\ IF FindOrderByTransaction(req[r].transaction_id) # 0
       THEN /\ resp' = HTTPException("create_order", 400, "Transaction ID already used")
            /\ req' = [req EXCEPT ![r] = Idle]
       ELSE /\ resp' = NoResp
            /\ req' = [req EXCEPT ![r].pc = "ord_insert"]
    /\ UNCHANGED <<users, sessions, games, gameIds, orders, now, left>>

\* create_order, line 259-268: the order insert and the response
create_order_insert(r) ==
    /\ Ready
    /\ req[r].pc = "ord_insert"
    /\ LET id == Len(orders) + 1
           order == [id |-> id,
                     user_id |-> IF req[r].user # 0 THEN MkId(users[req[r].user].id) ELSE NoId,
                     game_id |-> req[r].game_id,
                     transaction_id |-> req[r].transaction_id,
                     status |-> "pending",
                     updated_at |-> -1]
       IN /\ orders' = create_document(orders, order)
          /\ resp' = Resp("create_order", 200, id)
    /\ req' = [req EXCEPT ![r] = Idle]
    /\ UNCHANGED <<users, sessions, games, gameIds, now, left>>

\* my_orders
my_orders(authorization) ==
    /\ Ready
    /\ LET user == get_current_user(authorization)
       IN IF user = 0
          THEN resp' = HTTPException("my_orders", 401, "Unauthorized")
          ELSE resp' = [Resp("my_orders", 200, 0) EXCEPT
                          !.docs = {orders[i].id : i \in {j \in 1..Len(orders) :
                                       orders[j].user_id = MkId(users[user].id)}}]
    /\ UNCHANGED <<users, sessions, games, gameIds, orders, now, left, req>>

\* admin_list_orders; status is "" for no filter
admin_list_orders(authorization, status) ==
    /\ Ready
    /\ LET auth == require_admin(authorization)
       IN IF auth # 200
          THEN resp' = HTTPException("admin_list_orders", auth, AdminDetail(auth))
          ELSE resp' = [Resp("admin_list_orders", 200, 0) EXCEPT
                          !.docs = {orders[i].id : i \in {j \in 1..Len(orders) :
                                       status = "" \/ orders[j].status = status}}]
    /\ UNCHANGED <<users, sessions, games, gameIds, orders, now, left, req>>

\* update_order_status
update_order_status(authorization, order_id, status) ==
    /\ Ready
    /\ LET auth == require_admin(authorization)
           o == oid(order_id)
           doc == IF o.ok THEN FindOrderById(o.id) ELSE 0
       IN IF auth # 200
          THEN /\ resp' = HTTPException("update_order_status", auth, AdminDetail(auth))
               /\ UNCHANGED orders
          ELSE IF status \notin Statuses
          THEN /\ resp' = HTTPException("update_order_status", 400, "Invalid status")
               /\ UNCHANGED orders
          ELSE IF ~o.ok
          THEN /\ resp' = HTTPException("update_order_status", 400, "Invalid id format")
               /\ UNCHANGED orders
          ELSE IF doc = 0
          THEN /\ resp' = HTTPException("update_order_status", 404, "Order not found")
               /\ UNCHANGED orders
          ELSE /\ orders' = [orders EXCEPT ![doc].status = status, ![doc].updated_at = now]
               /\ resp' = Resp("update_order_status", 200, 1)
    /\ UNCHANGED <<users, sessions, games, gameIds, now, left, req>>

---------------------------------------------------------------------------
(* Specifications *)

\* an admin is provisioned in the store, never through the API
AdminDoc == [id |-> 1, email |-> <<98>>, password_hash |-> hash_password("pw2"), role |-> "admin"]

\* the catalogue the store may hold when the service starts
SeedGame == [id |-> 1, title |-> "t1", updated_at |-> -1]

\* a session left in the store whose user document has been removed from it
DanglingSession == [user_id |-> MkId(9), token |-> 1, expires_at |-> SESSION_TTL_SECONDS]

\* inputs of the handlers
Payloads == {[title |-> "t2"], [title |-> PyNone]}
StatusInputs == {"verified", "bogus"}
FilterInputs == {"", "pending"}
TickInputs == {1, SESSION_TTL_SECONDS}

Init ==
    /\ users \in {<<>>, <<AdminDoc>>}
    /\ sessions = <<>>
    /\ games \in {<<>>, <<SeedGame>>}
    /\ gameIds = Len(games)
    /\ orders = <<>>
    /\ now = 0
    /\ left = MaxOps
    /\ req = [r \in Reqs |-> Idle]
    /\ resp = NoResp

\* the auth handlers alone, on a store that may hold a dangling session
InitAuth ==
    /\ users \in {<<>>, <<AdminDoc>>}
    /\ sessions \in {<<>>, <<DanglingSession>>}
    /\ games = <<>>
    /\ gameIds = 0
    /\ orders = <<>>
    /\ now = 0
    /\ left = MaxAuthOps
    /\ req = [r \in Reqs |-> Idle]
    /\ resp = NoResp

\* a store with no admin user
InitNoAdmin ==
    /\ users = <<>>
    /\ sessions = <<>>
    /\ games \in {<<>>, <<SeedGame>>}
    /\ gameIds = Len(games)
    /\ orders = <<>>
    /\ now = 0
    /\ left = MaxOps
    /\ req = [r \in Reqs |-> Idle]
    /\ resp = NoResp

NextAuth ==
    \/ \E r \in Reqs, email \in Emails, password \in Passwords : register_find(r, email, password)
    \/ \E r \in Reqs : register_insert(r)
    \/ \E r \in Reqs : register_session(r)
    \/ \E email \in Emails, password \in Passwords : login(email, password)
    \/ \E authorization \in Headers : me(authorization)
    \/ \E d \in TickInputs : Tick(d)
    \/ Deliver

NextShop ==
    \/ \E game_id \in IdStrings : get_game(game_id)
    \/ \E authorization \in Headers, title \in Titles : create_game(authorization, title)
    \/ \E authorization \in Headers, game_id \in IdStrings, payload \in Payloads :
          update_game(authorization, game_id, payload)
    \/ \E authorization \in Headers, game_id \in IdStrings : delete_game(authorization, game_id)
    \/ \E r \in Reqs, authorization \in Headers, game_id \in IdStrings, transaction_id \in Transactions :
          create_order_find_game(r, authorization, game_id, transaction_id)
    \/ \E r \in Reqs : create_order_check(r)
    \/ \E r \in Reqs : create_order_insert(r)
    \/ \E authorization \in Headers : my_orders(authorization)
    \/ \E authorization \in Headers, status \in FilterInputs : admin_list_orders(authorization, status)
    \/ \E authorization \in Headers, order_id \in IdStrings, status \in StatusInputs :
          update_order_status(authorization, order_id, status)

Next == NextAuth \/ NextShop

Spec == Init /\ [][Next]_vars
SpecAuth == InitAuth /\ [][NextAuth]_vars
SpecNoAdmin == InitNoAdmin /\ [][Next]_vars

---------------------------------------------------------------------------
(* What the properties read of a request and of the store *)

\* the header names the bearer scheme, in any letter case the model sends
IsBearer(h) == h # NoHeader /\ h.scheme \in {Bearer, BEARER}

\* the stored sessions that carry the header's token
SessionsOf(h) == {s \in DOMAIN sessions : IsBearer(h) /\ sessions[s].token = h.cred}

\* the user documents a session names
UsersOf(s) == {u \in DOMAIN users : MkId(users[u].id) = sessions[s].user_id}

\* the header carries an unexpired token of user document u
Authenticates(h, u) == \E s \in SessionsOf(h) : now <= sessions[s].expires_at /\ u \in UsersOf(s)

\* no token, a malformed header, an unknown token or an expired token
NoCredentials(h) ==
    \/ ~IsBearer(h)
    \/ \A s \in DOMAIN sessions : sessions[s].token # h.cred \/ now > sessions[s].expires_at

ErrorStatuses == {400, 401, 403, 404}
AdminOps == {"create_game", "update_game", "delete_game", "admin_list_orders", "update_order_status"}

\* a step of an admin-only handler called with header h
AdminStep(h) ==
    \/ resp'.op = "create_game" /\ \E title \in Titles : create_game(h, title)
    \/ resp'.op = "update_game" /\ \E game_id \in IdStrings, payload \in Payloads : update_game(h, game_id, payload)
    \/ resp'.op = "delete_game" /\ \E game_id \in IdStrings : delete_game(h, game_id)
    \/ resp'.op = "admin_list_orders" /\ \E status \in FilterInputs : admin_list_orders(h, status)
    \/ resp'.op = "update_order_status" /\ \E order_id \in IdStrings, status \in StatusInputs :
           update_order_status(h, order_id, status)

---------------------------------------------------------------------------
(* C1: two register requests with the same lowercased email never both    *)
(* succeed: the user collection never holds two documents with the same   *)
(* lowercased email.  The code's find_one and insert are separate store   *)
(* operations, and two requests that both pass the check both insert.     *)
C1_UniqueEmail ==
    \A i, j \in DOMAIN users : Lower(users[i].email) = Lower(users[j].email) => i = j

(* C2: two create_order requests with the same transaction_id never both  *)
(* succeed: the order collection never holds two orders with the same     *)
(* transaction_id.                                                        *)
C2_UniqueTransaction ==
    \A i, j \in DOMAIN orders : orders[i].transaction_id = orders[j].transaction_id => i = j

(* C3: a session is issued with expires_at = now + 7 days; it is never    *)
(* changed or removed afterwards; the clock never goes back; and a /me    *)
(* request with its token answers 200 with the session's user exactly     *)
(* while now <= expires_at (equality included) and 401 once now >         *)
(* expires_at, whatever requests ran in between.                          *)
C3_SessionLifetime ==
    [][ /\ \A i \in DOMAIN sessions' :
              IF i \in DOMAIN sessions
              THEN sessions'[i] = sessions[i]
              ELSE sessions'[i].expires_at = now + 7 * 24 * 3600
        /\ Len(sessions') >= Len(sessions)
        /\ now' >= now
        /\ \A h \in Headers : me(h) =>
              \A s \in SessionsOf(h) : \A u \in UsersOf(s) :
                 IF now <= sessions[s].expires_at
                 THEN resp' = Resp("me", 200, users[u].id)
                 ELSE resp'.op = "me" /\ resp'.status = 401
      ]_vars

\* /me answered 200 at exactly now = expires_at, while an older session has expired
C3_Witness ==
    /\ resp.op = "me" /\ resp.status = 200
    /\ \E s \in DOMAIN sessions : now > sessions[s].expires_at /\ UsersOf(s) # {}
    /\ \E s \in DOMAIN sessions : now = sessions[s].expires_at /\ UsersOf(s) # {}
                                     /\ \A u \in UsersOf(s) : users[u].id = resp.val
    /\ \A s \in DOMAIN sessions : now >= sessions[s].expires_at

(* C6: get_current_user returns a user only for a header with the bearer  *)
(* prefix whose token is the token of a stored session, and the user is   *)
(* the one the session names; for no header, a non-bearer header, a token *)
(* no stored session has, and a session whose user document is gone, it   *)
(* returns None.                                                          *)
C6_AuthenticateSound ==
    \A h \in Headers :
        LET u == get_current_user(h)
        IN /\ u # 0 => \E s \in SessionsOf(h) : u \in UsersOf(s)
           /\ (\/ h = NoHeader
               \/ ~IsBearer(h)
               \/ \A s \in DOMAIN sessions : sessions[s].token # h.cred
               \/ \A s \in SessionsOf(h) : UsersOf(s) = {}) => u = 0

\* both outcomes at once: the dangling session's token is refused although
\* unexpired, and /me has just answered 200 for another stored session
C6_Witness ==
    /\ resp.op = "me" /\ resp.status = 200
    /\ \E s \in DOMAIN sessions : UsersOf(s) = {} /\ now <= sessions[s].expires_at
    /\ \E h \in Headers : get_current_user(h) = resp.val /\ resp.val # 0

(* C5: once a registration with (email, password) has created its user   *)
(* document, a login with the same password and the email in any letter   *)
(* case answers 200 with a new session of that very user document, and    *)
(* leaves every earlier session as it was.                                *)
C5_LoginAfterRegister ==
    [][ \A email \in Emails, password \in Passwords : login(email, password) =>
           \A u \in DOMAIN users :
              (/\ users[u].role = "user"
               /\ users[u].email = Lower(email)
               /\ users[u].password_hash = hash_password(password))
              => /\ resp'.op = "login" /\ resp'.status = 200
                 /\ Len(sessions') = Len(sessions) + 1
                 /\ sessions'[Len(sessions')].token = resp'.val
                 /\ sessions'[Len(sessions')].user_id = MkId(users[u].id)
                 /\ \A i \in DOMAIN sessions : sessions'[i] = sessions[i]
      ]_vars

(* C4: an admin-only handler (create, update, delete game, list orders,   *)
(* update order status) called with an unexpired token of a user whose    *)
(* role is not "admin" answers 403, and called with no header, a          *)
(* non-bearer header, an unknown token or an expired token answers 401;   *)
(* either way the game and order collections are unchanged.               *)
C4_AdminGate ==
    [][ \A h \in Headers : AdminStep(h) =>
           /\ (\E u \in DOMAIN users : Authenticates(h, u) /\ users[u].role # "admin")
                 => resp'.status = 403 /\ UNCHANGED <<games, orders>>
           /\ NoCredentials(h) => resp'.status = 401 /\ UNCHANGED <<games, orders>>
      ]_vars

\* a registered user's delete was refused with 403 while the catalogue holds a game
C4_Witness ==
    /\ resp.op = "delete_game" /\ resp.status = 403
    /\ games # <<>>
    /\ \E h \in Headers, u \in DOMAIN users : Authenticates(h, u) /\ users[u].role = "user"

(* C7: a handler that takes an id (get game, update game, delete game,    *)
(* create order, update order status) and is given an id string that is   *)
(* not a 24-character hex string rejects the request: it answers with a   *)
(* client error, the 400 of the id check or the 401/403 of the gate that  *)
(* runs before it.                                                        *)
C7_InvalidIdRejected ==
    [][ \A id \in IdStrings : (id.len # 24 \/ ~id.hex) =>
           \A h \in Headers :
              (\/ get_game(id)
               \/ \E payload \in Payloads : update_game(h, id, payload)
               \/ delete_game(h, id)
               \/ \E r \in Reqs, transaction_id \in Transactions : create_order_find_game(r, h, id, transaction_id)
               \/ \E status \in StatusInputs : update_order_status(h, id, status))
              => resp'.status \in {400, 401, 403}
      ]_vars

(* C8: a delete by an admin of a well-formed id that no game document has *)
(* answers 404 and leaves the game collection unchanged; a delete of an   *)
(* id a game document has answers 200 and removes exactly that document;  *)
(* and an id that has been handed out and is absent never comes back, so  *)
(* of two deletes of the same game the first answers 200 and the second   *)
(* 404.                                                                   *)
C8_DeleteOnce ==
    [][ /\ \A h \in Headers, id \in IdStrings :
             (/\ resp'.op = "delete_game"
              /\ delete_game(h, id)
              /\ id.len = 24 /\ id.hex
              /\ \E u \in DOMAIN users : Authenticates(h, u) /\ users[u].role = "admin")
             => IF \E g \in DOMAIN games : games[g].id = id.n
                THEN /\ resp' = Resp("delete_game", 200, 1)
                     /\ \A g \in DOMAIN games' : games'[g].id # id.n
                     /\ Len(games') = Len(games) - 1
                     /\ \A g \in DOMAIN games : games[g].id # id.n =>
                           \E k \in DOMAIN games' : games'[k] = games[g]
                ELSE /\ resp'.op = "delete_game" /\ resp'.status = 404
                     /\ games' = games
        /\ \A n \in 1..gameIds :
             (\A g \in DOMAIN games : games[g].id # n) => (\A g \in DOMAIN games' : games'[g].id # n)
        /\ gameIds' >= gameIds
      ]_vars

\* two games were handed out, both are deleted, and a further delete got 404
C8_Witness ==
    /\ resp.op = "delete_game" /\ resp.status = 404
    /\ gameIds = 2
    /\ games = <<>>

(* C9: a step that sends a 400, 401, 403 or 404 leaves the user, session, *)
(* game and order collections unchanged; every step a request takes       *)
(* before the step that may fail (the register existence check, the       *)
(* create_order game lookup and transaction check) is read-only, and a    *)
(* request that has started to write (register after its check,           *)
(* create_order after its checks) never ends in an error.  In particular  *)
(* register with a stored email, login with a wrong password or unknown   *)
(* email, create_order with a missing game or a stored transaction_id,    *)
(* and update_order_status with an invalid status or unknown order change *)
(* nothing.                                                               *)
C9_ErrorsChangeNothing ==
    [][ /\ resp'.status \in ErrorStatuses => UNCHANGED store
        /\ \A r \in Reqs :
              /\ (req[r].pc \in {"idle", "ord_txn"} /\ req'[r] # req[r]) => UNCHANGED store
              /\ (req[r].pc \in {"reg_insert", "reg_session", "ord_insert"} /\ req'[r] # req[r])
                    => resp'.status \notin ErrorStatuses
        /\ \A r \in Reqs, email \in Emails, password \in Passwords :
              (resp'.op = "register" /\ register_find(r, email, password) /\ \E u \in DOMAIN users : users[u].email = Lower(email))
                 => resp'.status = 400 /\ UNCHANGED store
        /\ \A email \in Emails, password \in Passwords :
              (resp'.op = "login" /\ login(email, password) /\ \A u \in DOMAIN users :
                    users[u].email # Lower(email) \/ users[u].password_hash # hash_password(password))
                 => resp'.status = 401 /\ UNCHANGED store
        /\ \A r \in Reqs, h \in Headers, id \in IdStrings, transaction_id \in Transactions :
              (resp'.op = "create_order" /\ create_order_find_game(r, h, id, transaction_id) /\ \A g \in DOMAIN games : MkId(games[g].id) # id)
                 => resp'.status \in {400, 404} /\ UNCHANGED store
        /\ \A r \in Reqs :
              (req[r].pc = "ord_txn" /\ create_order_check(r) /\ \E o \in DOMAIN orders : orders[o].transaction_id = req[r].transaction_id)
                 => resp'.status = 400 /\ UNCHANGED store
        /\ \A h \in Headers, id \in IdStrings, status \in StatusInputs :
              (resp'.op = "update_order_status" /\ update_order_status(h, id, status)
                 /\ (status \notin {"pending", "verified", "delivered", "cancelled"}
                        \/ \A o \in DOMAIN orders : MkId(orders[o].id) # id))
                 => resp'.status \in ErrorStatuses /\ UNCHANGED store
      ]_vars

\* a create_order was refused for a used transaction_id and the one order stands
C9_Witness ==
    /\ resp.op = "create_order" /\ resp.status = 400
    /\ resp.detail = "Transaction ID already used"
    /\ Len(orders) = 1
    /\ games # <<>>

(* C10: from a store with no admin user, every user document has role     *)
(* "user" and keeps it, every admin-only handler answers 401 or 403, the  *)
(* game collection never changes, and every order is created "pending"    *)
(* and stays as created.                                                  *)
C10_NoAdminEver ==
    [][ /\ \A u \in DOMAIN users' : users'[u].role = "user"
        /\ \A u \in DOMAIN users : u \in DOMAIN users' /\ users'[u].role = users[u].role
        /\ resp'.op \in AdminOps => resp'.status \in {401, 403}
        /\ games' = games
        /\ \A o \in DOMAIN orders' :
              IF o \in DOMAIN orders THEN orders'[o] = orders[o] ELSE orders'[o].status = "pending"
        /\ Len(orders') >= Len(orders)
      ]_vars

\* a registered user holds a valid token, an order exists, and create_game got 403
C10_Witness ==
    /\ resp.op = "create_game" /\ resp.status = 403
    /\ Len(orders) >= 1
    /\ \E h \in Headers, u \in DOMAIN users : Authenticates(h, u)

====
